---- MODULE Spec2Model ----
(***************************************************************************)
(* Model of HIPPO_distance.py: the Resnik / sim.max distance pipeline.     *)
(*                                                                         *)
(* The script is one sequential run.  Its state is the ontology (hpo), the *)
(* input table, the dataframe df as it is rewritten stage by stage, the    *)
(* diagnostic values, the IC dictionary, the distance matrix and the file  *)
(* written at the end.  pc is the position of the run in the script.       *)
(*                                                                         *)
(* Identifiers (case IDs, HPO term ids) are integers so that the sorts of  *)
(* groupby and np.unique are the order of the integers.                    *)
(*                                                                         *)
(* Real numbers.  Every number the script computes from IC is a sum of     *)
(* values -log2(count/total), possibly halved.  Such a value v is kept     *)
(* exactly as a record [num, den, div] with v = log2(num/den) / div, so    *)
(* that addition is multiplication of the ratios and comparison is         *)
(* cross-multiplication.                                                   *)
(***************************************************************************)
EXTENDS Integers, Sequences, FiniteSets, TLC

\* ------------------------------------------------------------------ bounds
NTerms == 4
NUnknown == 1
NCases == 2
MaxRows == 2
MaxTerms == 2
MaxCells == 3

Terms == 1..NTerms
UnknownIds == (NTerms + 1)..(NTerms + NUnknown)
TermIds == Terms \cup UnknownIds
CaseIds == 1..NCases

VARIABLES pc, hpo, table, df, percent, obsolete, IC, distance, output, err

vars == <<pc, hpo, table, df, percent, obsolete, IC, distance, output, err>>

\* ------------------------------------------------------- list helpers
Range(s) == {s[k] : k \in DOMAIN s}

Min(S) == CHOOSE x \in S : \A y \in S : x <= y

RECURSIVE SortedSeq(_)
SortedSeq(S) == IF S = {} THEN <<>> ELSE <<Min(S)>> \o SortedSeq(S \ {Min(S)})

\* np.unique on a list: the sorted list of its distinct values
NpUnique(s) == SortedSeq(Range(s))

RECURSIVE Flatten(_)
Flatten(ss) == IF ss = <<>> THEN <<>> ELSE Head(ss) \o Flatten(Tail(ss))

RECURSIVE SelectRows(_, _)
SelectRows(rows, keep) ==
    IF rows = <<>> THEN <<>>
    ELSE (IF Head(rows) \in keep THEN <<Head(rows)>> ELSE <<>>)
         \o SelectRows(Tail(rows), keep)

\* ------------------------------------------------------- exact log values
RECURSIVE Gcd(_, _)
Gcd(a, b) == IF b = 0 THEN a ELSE Gcd(b, a % b)

RECURSIVE Pow(_, _)
Pow(a, k) == IF k = 0 THEN 1 ELSE a * Pow(a, k - 1)

Norm(v) == LET g == Gcd(v.num, v.den)
           IN [num |-> v.num \div g, den |-> v.den \div g, div |-> v.div]

Zero == [num |-> 1, den |-> 1, div |-> 1]

\* log2(count / total): the sign of the logarithm lost
NegLog2Freq_unsigned(count, total) ==
    LET g == Gcd(count, total)
    IN [num |-> count \div g, den |-> total \div g, div |-> 1]

\* -log2(count / total)
NegLog2Freq(count, total) == Norm([num |-> total, den |-> count, div |-> 1])

\* x + y for two values of the same divisor
Add(x, y) == Norm([num |-> x.num * y.num, den |-> x.den * y.den, div |-> x.div])

\* 0.5 * x
Half(x) == [x EXCEPT !.div = 2 * x.div]

\* x <= y and x = y as real numbers
Leq(x, y) ==
    LET g == Gcd(x.div, y.div)
        ex == y.div \div g
        ey == x.div \div g
    IN Pow(x.num, ex) * Pow(y.den, ey) <= Pow(y.num, ey) * Pow(x.den, ex)
Eq(x, y) == Leq(x, y) /\ Leq(y, x)

RECURSIVE SumSeq(_)
SumSeq(s) == IF s = <<>> THEN Zero ELSE Add(Head(s), SumSeq(Tail(s)))

MaxOf(S) == CHOOSE x \in S : \A y \in S : Leq(y, x)

\* ------------------------------------------------------------ inputs
\* An ontology: each known term with its direct is-a parents.  Parents carry
\* smaller ids, so the graph is acyclic.
Ontologies == {h \in [Terms -> SUBSET Terms] : \A t \in Terms : h[t] \subseteq 1..(t - 1)}

\* The HPO field of one input row: the comma-separated ids, <<>> for a
\* missing field (read as NaN).
HpoFields == UNION {[1..n -> TermIds] : n \in 0..MaxTerms}

InputRows == [ID : CaseIds, HPO : HpoFields]

\* cells of the HPO column: a missing field is one cell
Cells(row) == IF row.HPO = <<>> THEN 1 ELSE Len(row.HPO)

RowsOfSize(n) == {r \in InputRows : Cells(r) = n}

\* the tables of n rows holding c cells in all
RECURSIVE TablesOf(_, _)
TablesOf(n, c) ==
    IF n = 0 THEN (IF c = 0 THEN {<<>>} ELSE {})
    ELSE UNION {{<<r>> \o t : r \in RowsOfSize(k), t \in TablesOf(n - 1, c - k)} :
                  k \in 1..(IF c < MaxTerms THEN c ELSE MaxTerms)}

Tables == UNION {TablesOf(n, c) : n \in 0..MaxRows, c \in 0..MaxCells}

\* A corpus of one case more, one row per case in ID order, each row an
\* ascending list of known terms.
CorpusFields == {f \in HpoFields : /\ f # <<>>
                                   /\ \A k \in DOMAIN f : f[k] \in Terms
                                   /\ \A k \in 1..(Len(f) - 1) : f[k] < f[k + 1]}

CorpusTables == {t \in [1..(NCases + 1) -> [ID : 1..(NCases + 1), HPO : CorpusFields]] :
                    \A k \in DOMAIN t : t[k].ID = k}

\* ------------------------------------------------------------ map_ancs
\* Term.rparents(): every term reached by one or more is-a steps
RECURSIVE rparents(_, _)
rparents(h, t) == h[t] \cup UNION {rparents(h, p) : p \in h[t]}

map_ancs(term) == IF term \in DOMAIN hpo THEN SortedSeq(rparents(hpo, term)) ELSE <<>>

\* the two branches exchanged
obsolete_terms_inverted(term_list) ==
    IF \A k \in DOMAIN term_list : map_ancs(term_list[k]) # <<>> THEN TRUE ELSE FALSE

obsolete_terms(term_list) ==
    IF \A k \in DOMAIN term_list : map_ancs(term_list[k]) # <<>> THEN FALSE ELSE TRUE

\* ------------------------------------------------------------ resnik
\* ancestors shared by the two terms of one cell of the cross matrix
Common(i, j) == Range(map_ancs(i)) \cap Range(map_ancs(j))

\* max() of an empty list raises ValueError
ResnikRaises(HPO_list_1, HPO_list_2) ==
    \E a \in DOMAIN HPO_list_1, b \in DOMAIN HPO_list_2 :
        Common(HPO_list_1[a], HPO_list_2[b]) = {}

MinOf(S) == CHOOSE x \in S : \A y \in S : Leq(x, y)

\* min() in place of max()
Cell_min(ic, i, j) == MinOf({ic[a] : a \in Common(i, j)})

Cell(ic, i, j) == MaxOf({ic[a] : a \in Common(i, j)})

\* both sums taken along axis 0
simmax_axis0(ic, l1, l2) ==
    LET colmax == [b \in DOMAIN l2 |-> MaxOf({Cell(ic, l1[a], l2[b]) : a \in DOMAIN l1})]
    IN Half(Add(SumSeq(colmax), SumSeq(colmax)))

simmax(ic, l1, l2) ==
    LET colmax == [b \in DOMAIN l2 |-> MaxOf({Cell(ic, l1[a], l2[b]) : a \in DOMAIN l1})]
        rowmax == [a \in DOMAIN l1 |-> MaxOf({Cell(ic, l1[a], l2[b]) : b \in DOMAIN l2})]
    IN Half(Add(SumSeq(colmax), SumSeq(rowmax)))

resnik(ic, HPO_list_1, HPO_list_2) ==
    IF HPO_list_1 = <<>> \/ HPO_list_2 = <<>> THEN Half(Zero)
    ELSE simmax(ic, HPO_list_1, HPO_list_2)

\* ------------------------------------------------------------ the run
NoFrame == [index |-> <<>>, rows |-> <<>>]

Init ==
    /\ pc = "start"
    /\ hpo \in Ontologies
    /\ table \in Tables
    /\ df = table
    /\ percent = 0
    /\ obsolete = FALSE
    /\ IC = <<>>
    /\ distance = NoFrame
    /\ output = <<>>
    /\ err = "none"

\* lines 78-85: dropna, split, explode, map every term to its ancestors
Exploded(rows) ==
    Flatten([r \in DOMAIN rows |->
        [k \in DOMAIN rows[r].HPO |->
            [ID |-> rows[r].ID, HPO |-> rows[r].HPO[k], ancs |-> map_ancs(rows[r].HPO[k])]]])

MapAncestors ==
    /\ pc = "start"
    /\ df' = Exploded(SelectRows(df, {r \in Range(df) : r.HPO # <<>>}))
    /\ pc' = "mapped"
    /\ UNCHANGED <<hpo, table, percent, obsolete, IC, distance, output, err>>

\* round(x, 2) of x = 100 * u / m, in hundredths, halves to even
Round2(u, m) ==
    LET q == (10000 * u) \div m
        r == (10000 * u) % m
    IN IF 2 * r < m THEN q
       ELSE IF 2 * r > m THEN q + 1
       ELSE IF q % 2 = 0 THEN q ELSE q + 1

\* the filter keeping every row
Mapped_all(rows) == Range(rows)

Mapped(rows) == {r \in Range(rows) : r.ancs # <<>>}
CountRows(rows, keep) == Len(SelectRows(rows, keep))

\* lines 88-91: the unmapped percentage, then the unmapped rows are dropped
DropUnmapped ==
    /\ pc = "mapped"
    /\ LET m == CountRows(df, Mapped(df))
           u == Len(df) - m
       IN IF m = 0
          THEN /\ pc' = "crashed"
               /\ err' = "ZeroDivisionError"
               /\ UNCHANGED <<df, percent>>
          ELSE /\ percent' = Round2(u, m)
               /\ df' = SelectRows(df, Mapped(df))
               /\ pc' = "filtered"
               /\ UNCHANGED err
    /\ UNCHANGED <<hpo, table, obsolete, IC, distance, output>>

\* lines 94-100: one row per ID, the terms joined to their ancestors
GroupOf(rows, id) == SelectRows(rows, {r \in Range(rows) : r.ID = id})

HpoOf(rows, id) == LET g == GroupOf(rows, id) IN [k \in DOMAIN g |-> g[k].HPO]

AncsOf(rows, id) == LET g == GroupOf(rows, id) IN Flatten([k \in DOMAIN g |-> g[k].ancs])

\* line 97 left out: the terms are not joined to their ancestors
Regrouped_noself(rows) ==
    LET ids == SortedSeq({r.ID : r \in Range(rows)})
    IN [k \in DOMAIN ids |->
           [ID |-> ids[k],
            HPO |-> NpUnique(HpoOf(rows, ids[k])),
            ancs |-> NpUnique(AncsOf(rows, ids[k]))]]

Regrouped(rows) ==
    LET ids == SortedSeq({r.ID : r \in Range(rows)})
    IN [k \in DOMAIN ids |->
           [ID |-> ids[k],
            HPO |-> NpUnique(HpoOf(rows, ids[k])),
            ancs |-> NpUnique(HpoOf(rows, ids[k]) \o AncsOf(rows, ids[k]))]]

Regroup ==
    /\ pc = "filtered"
    /\ df' = Regrouped(df)
    /\ pc' = "grouped"
    /\ UNCHANGED <<hpo, table, percent, obsolete, IC, distance, output, err>>

\* lines 103-104
ObsoleteCheck ==
    /\ pc = "grouped"
    /\ obsolete' = (\E k \in DOMAIN df : obsolete_terms(df[k].HPO))
    /\ pc' = "checked"
    /\ UNCHANGED <<hpo, table, df, percent, IC, distance, output, err>>

\* lines 110-112
Occurrences(s, x) == Cardinality({k \in DOMAIN s : s[k] = x})

InformationContent(rows) ==
    LET all_ancs == Flatten([k \in DOMAIN rows |-> rows[k].ancs])
    IN [c \in Range(all_ancs) |-> NegLog2Freq(Occurrences(all_ancs, c), Len(all_ancs))]

BuildIC ==
    /\ pc = "checked"
    /\ IC' = InformationContent(df)
    /\ pc' = "ic"
    /\ UNCHANGED <<hpo, table, df, percent, obsolete, distance, output, err>>

\* line 120
ComputeDistance ==
    /\ pc = "ic"
    /\ IF \E j \in DOMAIN df, i \in DOMAIN df : ResnikRaises(df[j].HPO, df[i].HPO)
       THEN /\ pc' = "crashed"
            /\ err' = "ValueError"
            /\ UNCHANGED distance
       ELSE /\ distance' =
                [index |-> [j \in DOMAIN df |-> j - 1],
                 rows |-> [j \in DOMAIN df |->
                              [i \in DOMAIN df |-> resnik(IC, df[j].HPO, df[i].HPO)]]]
            /\ pc' = "scored"
            /\ UNCHANGED err
    /\ UNCHANGED <<hpo, table, df, percent, obsolete, IC, output>>

\* lines 123-124
\* the column label taken one off the row label
ZeroedRows_shifted(rows) ==
    [j \in DOMAIN rows |-> [i \in DOMAIN rows[j] |-> IF i = j + 1 THEN Zero ELSE rows[j][i]]]

ZeroedRows(rows) ==
    [j \in DOMAIN rows |-> [i \in DOMAIN rows[j] |-> IF i = j THEN Zero ELSE rows[j][i]]]

ZeroDiagonal ==
    /\ pc = "scored"
    /\ distance' = [distance EXCEPT !.rows = ZeroedRows(distance.rows)]
    /\ pc' = "zeroed"
    /\ UNCHANGED <<hpo, table, df, percent, obsolete, IC, output, err>>

\* lines 127-130: dropna, set_index, to_csv(index=False)
NaN == [num |-> 0, den |-> 0, div |-> 1]

DropNaRows(rows) == SelectRows(rows, {r \in Range(rows) : \A i \in DOMAIN r : r[i] # NaN})

Save ==
    /\ pc = "zeroed"
    /\ LET kept == DropNaRows(distance.rows)
       IN IF Len(kept) # Len(df)
          THEN /\ pc' = "crashed"
               /\ err' = "ValueError"
               /\ UNCHANGED <<distance, output>>
          ELSE /\ distance' = [index |-> [k \in DOMAIN df |-> df[k].ID], rows |-> kept]
               /\ output' = kept
               /\ pc' = "done"
               /\ UNCHANGED err
    /\ UNCHANGED <<hpo, table, df, percent, obsolete, IC>>

Next ==
    \/ MapAncestors
    \/ DropUnmapped
    \/ Regroup
    \/ ObsoleteCheck
    \/ BuildIC
    \/ ComputeDistance
    \/ ZeroDiagonal
    \/ Save

Spec == Init /\ [][Next]_vars

InitCorpus ==
    /\ pc = "start"
    /\ hpo \in Ontologies
    /\ table \in CorpusTables
    /\ df = table
    /\ percent = 0
    /\ obsolete = FALSE
    /\ IC = <<>>
    /\ distance = NoFrame
    /\ output = <<>>
    /\ err = "none"

SpecCorpus == InitCorpus /\ [][Next]_vars

\* ------------------------------------------------------------ properties
Grouped == {"grouped", "checked", "ic", "scored", "zeroed", "done"}

\* the ancestors the ontology gives for an id (none for an unknown id)
Ancestors(t) == IF t \in DOMAIN hpo THEN rparents(hpo, t) ELSE {}

\* the ids of one case in the input table, and those that map
InputTerms(id) == UNION {Range(r.HPO) : r \in {x \in Range(table) : x.ID = id}}
MappedTerms(id) == {t \in InputTerms(id) : Ancestors(t) # {}}
InputIds == {r.ID : r \in {x \in Range(table) : x.HPO # <<>>}}
KeptIds == {id \in InputIds : MappedTerms(id) # {}}
AncestorSet(id) == MappedTerms(id) \cup UNION {Ancestors(t) : t \in MappedTerms(id)}

NoDuplicates(s) == \A a, b \in DOMAIN s : s[a] = s[b] => a = b

\* C1: whenever the matrix is built (every pairwise ancestor intersection is
\* non-empty), the score of the lists of cases j and i equals the score of
\* the lists of i and j: entry (j,i) equals entry (i,j).
C1_Symmetry ==
    pc = "scored" =>
        \A j, i \in DOMAIN df : Eq(distance.rows[j][i], distance.rows[i][j])

C1_Witness ==
    /\ pc = "scored"
    /\ \E j, i \in DOMAIN df :
          /\ Len(df[j].HPO) # Len(df[i].HPO)
          /\ ~Eq(distance.rows[j][i], Zero)

\* C2: the zeroing step sets every diagonal entry to 0 and changes no other
\* entry, and every diagonal entry of the written matrix is 0.
C2_DiagonalZero ==
    [][/\ (pc = "scored" /\ pc' = "zeroed") =>
              \A j \in DOMAIN distance.rows : \A i \in DOMAIN distance.rows[j] :
                  distance'.rows[j][i] = (IF i = j THEN Zero ELSE distance.rows[j][i])
       /\ pc' = "done" =>
              /\ Len(output') = Len(df)
              /\ \A i \in DOMAIN output' : output'[i][i] = Zero]_vars

C2_Witness ==
    /\ pc = "done"
    /\ Len(df) > 1
    /\ \E i \in DOMAIN df :
          /\ ~Eq(resnik(IC, df[i].HPO, df[i].HPO), Zero)
          /\ output[i][i] = Zero

\* the table holds an id the ontology does not know
HasUnknownId == \E r \in Range(table) : \E k \in DOMAIN r.HPO : r.HPO[k] \notin DOMAIN hpo

\* what the run does with such an id where it goes on
C3_UnmappedHandled ==
    HasUnknownId =>
        /\ \A u \in UnknownIds : map_ancs(u) = <<>>
        /\ pc \in Grouped \cup {"filtered"} => percent > 0
        /\ pc \in Grouped => \A k \in DOMAIN df : Range(df[k].HPO) \cap UnknownIds = {}

\* C3: an id the ontology does not know has no ancestors, is counted in the
\* unmapped percentage, is in no case's concepts after the filter, and the
\* run does not stop on it (no ZeroDivisionError), also when no id of the
\* table maps.
C3_UnmappedNeverFatal ==
    /\ C3_UnmappedHandled
    /\ HasUnknownId => ~(pc = "crashed" /\ err = "ZeroDivisionError")

\* C4: two concepts without a common ancestor give an undefined score, not a
\* crash: the run is never stopped by the empty maximum (ValueError).
C4_UndefinedScoreNotFatal == ~(pc = "crashed" /\ err = "ValueError")

\* C5: after regrouping, every concept of a case is in the case's ancs list,
\* and neither list holds a value twice.
C5_ConceptsInAncs ==
    pc \in Grouped =>
        \A k \in DOMAIN df :
            /\ Range(df[k].HPO) \subseteq Range(df[k].ancs)
            /\ NoDuplicates(df[k].HPO)
            /\ NoDuplicates(df[k].ancs)

C5_Witness ==
    /\ pc = "grouped"
    /\ \E r \in Range(table) : Len(r.HPO) = 2 /\ r.HPO[1] = r.HPO[2]
                               /\ r.ID \in {df[k].ID : k \in DOMAIN df}

CaseCount(c) == Cardinality({k \in DOMAIN df : c \in Range(df[k].ancs)})

RECURSIVE AncsLength(_)
AncsLength(rows) == IF rows = <<>> THEN 0 ELSE Len(Head(rows).ancs) + AncsLength(Tail(rows))

\* C6: a concept in the ancs of at least as many cases as another has an IC
\* no greater; a concept counts once for every case that has it, so that its
\* frequency is its number of cases over the sum of the ancs lengths; and no
\* IC is negative.
C6_ICMonotone ==
    pc \in {"ic", "scored", "zeroed", "done"} =>
        /\ \A c, d \in DOMAIN IC : CaseCount(c) >= CaseCount(d) => Leq(IC[c], IC[d])
        /\ \A c \in DOMAIN IC : IC[c].num * CaseCount(c) = IC[c].den * AncsLength(df)
        /\ \A c \in DOMAIN IC : Leq(Zero, IC[c])

C6_Witness ==
    /\ pc = "ic"
    /\ \E c, d \in DOMAIN IC : CaseCount(c) > CaseCount(d) /\ ~Leq(IC[d], IC[c])

BestIC(S) == CHOOSE v \in {IC[a] : a \in S} : \A a \in S : Leq(IC[a], v)
Mica(i, j) == BestIC(Ancestors(i) \cap Ancestors(j))
BestMatch(i, B) == CHOOSE v \in {Mica(i, j) : j \in B} : \A j \in B : Leq(Mica(i, j), v)

RECURSIVE SumBest(_, _)
SumBest(A, B) ==
    IF A = {} THEN Zero
    ELSE LET i == CHOOSE x \in A : TRUE
         IN Add(BestMatch(i, B), SumBest(A \ {i}, B))

\* v is half the two directional sums
IsSimMax(v, A, B) ==
    LET total == Add(SumBest(B, A), SumBest(A, B))
    IN /\ v.div = 2
       /\ v.num * total.den = total.num * v.den

SumIC(l) == SumSeq([k \in DOMAIN l |-> IC[l[k]]])

\* C8: two cases with the same concepts score the sum of the ICs of those
\* concepts.
C8_IdenticalSets ==
    pc = "scored" =>
        \A j, i \in DOMAIN df :
            (j # i /\ df[j].HPO = df[i].HPO) => Eq(distance.rows[j][i], SumIC(df[j].HPO))

FullyObsolete(id) == \A t \in InputTerms(id) : Ancestors(t) = {}

TotalAncs == LET n[S \in SUBSET KeptIds] ==
                     IF S = {} THEN 0
                     ELSE LET id == CHOOSE x \in S : TRUE
                          IN Cardinality(AncestorSet(id)) + n[S \ {id}]
             IN n[KeptIds]

\* C10: the written matrix has exactly one row and one column for every case
\* that keeps a mapped concept and none for a case whose ids all fail; such a
\* case adds nothing to the IC map.
C10_FailedCaseHasNoRow ==
    /\ pc \in {"ic", "scored", "zeroed", "done"} =>
          /\ DOMAIN IC = UNION {AncestorSet(id) : id \in KeptIds}
          /\ \A c \in DOMAIN IC :
                LET n == Cardinality({id \in KeptIds : c \in AncestorSet(id)})
                IN IC[c].num * n = IC[c].den * TotalAncs
    /\ pc = "done" =>
          /\ Range(distance.index) = KeptIds
          /\ Len(distance.index) = Cardinality(KeptIds)
          /\ Len(distance.rows) = Cardinality(KeptIds)
          /\ Len(output) = Cardinality(KeptIds)
          /\ \A k \in DOMAIN output : Len(output[k]) = Cardinality(KeptIds)

C10_Witness ==
    /\ pc = "done"
    /\ KeptIds # {}
    /\ \E id \in InputIds : id \notin KeptIds

====
